---- MODULE Spec2Model ----
(***************************************************************************)
(* A model of go/kbfs/libkbfs/subscription_manager.go: the per-client      *)
(* subscriptionManager (its two indices, two reverse indices, the active   *)
(* SID set and the per-FolderBranch reference counts), the Notifier it     *)
(* registers with, and the debounce delivery primitive.                    *)
(*                                                                         *)
(* Strings (cleanInTlfPath) are sequences of one-character strings, so     *)
(* that getParentPath and path.Clean work on characters as the code does.  *)
(* Go maps are functions whose DOMAIN is the set of keys present.          *)
(***************************************************************************)
EXTENDS Integers, Sequences, FiniteSets, TLC

\* ------------------------------------------------------------------ bounds

\* subscribePath is not called once a reference count has reached MaxCount.
MaxCount == 2
\* The number of debounce background tasks that can exist at one time.
MaxDeliveries == 3
\* The longest batch handed to BatchChanges.
MaxBatch == 2
\* The longest recorded run of effective subscribePath / Unsubscribe calls.
MaxTrace == 4
\* The number of notify calls made on the delivery under study.
MaxNotify == 3
\* The number of threads calling notify on it.
NumCallers == 2
\* The last tick of the clock.
MaxTime == 3
NumGetters == 2
MaxManagers == 5
MaxSubscribed == 1
\* The deduplicate interval of a rate-limited delivery, in ticks.
Interval == 2

\* ------------------------------------------------------------------ inputs

SIDs == {"sid1", "sid2"}

\* data.FolderBranch values; ZeroFB is the zero value data.FolderBranch{}.
ZeroFB == "zero"
FBs == {"fb1", "fb2"}

\* keybase1.SubscriptionTopic values.
OnlineStatusTopic == "ONLINE_STATUS"
OverallSyncStatusTopic == "OVERALL_SYNC_STATUS"
Topics == {OnlineStatusTopic, OverallSyncStatusTopic, "JOURNAL_STATUS"}

DeliveryIDs == 1..MaxDeliveries

\* ------------------------------------------------------------------- paths

Slash == "/"
Root == <<"/">>

\* The string "/c1/c2/..." of a sequence of one-character components.
RECURSIVE JoinComponents(_)
JoinComponents(cs) ==
  IF cs = <<>> THEN <<>>
  ELSE <<Slash>> \o cs[1] \o JoinComponents(Tail(cs))

PathOf(cs) == IF cs = <<>> THEN Root ELSE JoinComponents(cs)

\* The components of a string split at "/" (strings.Split), empty ones kept.
RECURSIVE SplitAt(_, _)
SplitAt(s, cur) ==
  IF s = <<>> THEN <<cur>>
  ELSE IF s[1] = Slash THEN <<cur>> \o SplitAt(Tail(s), <<>>)
  ELSE SplitAt(Tail(s), Append(cur, s[1]))

\* path.Clean's walk over the components of a rooted path: empty and "."
\* components are dropped, ".." removes the component before it (and is
\* dropped at the root).
RECURSIVE CleanWalk(_, _)
CleanWalk(cs, out) ==
  IF cs = <<>> THEN out
  ELSE IF cs[1] = <<>> \/ cs[1] = <<".">> THEN CleanWalk(Tail(cs), out)
  ELSE IF cs[1] = <<".", ".">>
       THEN CleanWalk(Tail(cs), IF out = <<>> THEN out ELSE SubSeq(out, 1, Len(out) - 1))
  ELSE CleanWalk(Tail(cs), Append(out, cs[1]))

\* getCleanInTlfPath: path.Clean of the parsed path's rawInTlfPath.
getCleanInTlfPath(rawInTlfPath) == PathOf(CleanWalk(SplitAt(rawInTlfPath, <<>>), <<>>))

\* strings.LastIndex(p, "/"): the 0-based index of the last "/" or -1.
LastIndex(p) ==
  LET at == {i \in 1..Len(p) : p[i] = Slash}
  IN IF at = {} THEN -1 ELSE (CHOOSE i \in at : \A j \in at : j <= i) - 1

\* strings.Index(p, "/"): the 0-based index of the first "/" or -1.
FirstIndex(p) ==
  LET at == {i \in 1..Len(p) : p[i] = Slash}
  IN IF at = {} THEN -1 ELSE (CHOOSE i \in at : \A j \in at : i <= j) - 1

getParentPath_FirstSlash(p) ==
  LET lastSlashIndex == FirstIndex(p)
  IN IF lastSlashIndex <= 0 THEN [parent |-> <<>>, ok |-> FALSE]
     ELSE [parent |-> SubSeq(p, 1, lastSlashIndex), ok |-> TRUE]

getParentPath(p) ==
  LET lastSlashIndex == LastIndex(p)
  IN IF lastSlashIndex <= 0 THEN [parent |-> <<>>, ok |-> FALSE]
     ELSE [parent |-> SubSeq(p, 1, lastSlashIndex), ok |-> TRUE]

\* The clean in-TLF paths nodes report and subscriptions are keyed by.
CleanPaths ==
  { Root,
    <<"/", "a">>,
    <<"/", "a", "/", "b">>,
    <<"/", "a", "/", "b", "/", "c">>,
    <<"/", "x">> }

\* rawInTlfPath values of parsed user paths: the clean ones and some that
\* path.Clean changes.
RawInTlfPaths ==
  CleanPaths \cup
  { <<"/", "a", "/", ".", "/", "b", "/">>,
    <<"/", "a", "/", ".", ".", "/", "x">> }

\* What parsePath and getFolderBranch make of a user path: an error of
\* either, or a FolderBranch (ZeroFB for a TLF that does not exist) and the
\* raw in-TLF path.
UserPaths ==
  { [err |-> e, fb |-> ZeroFB, rawInTlfPath |-> Root] : e \in {"parsePath", "getFolderBranch"} }
  \cup { [err |-> "nil", fb |-> ZeroFB, rawInTlfPath |-> Root] }
  \cup { [err |-> "nil", fb |-> fb, rawInTlfPath |-> r] : fb \in FBs, r \in RawInTlfPaths }

\* Whether a subscribe call passes a deduplicateInterval. The interval only
\* matters inside debounce, which is modelled on its own below; the path
\* subscriptions of the manager's runs pass none.
PathDedupChoices == {FALSE}
NonPathDedupChoices == BOOLEAN

\* A Node of the change source: its FolderBranch and what
\* GetPathPlaintextSansTlf returns.
Nodes ==
  { [fb |-> fb, path |-> p, ok |-> TRUE] : fb \in FBs, p \in CleanPaths }
  \cup { [fb |-> fb, path |-> <<>>, ok |-> FALSE] : fb \in {"fb1"} }

\* -------------------------------------------------------------------- maps

EmptyMap == [x \in {} |-> 0]
MapSet(m, k, v) == [x \in (DOMAIN m) \cup {k} |-> IF x = k THEN v ELSE m[x]]
MapDel(m, k) == [x \in (DOMAIN m) \ {k} |-> m[x]]
\* m[k] of a Go map of ints: 0 for a missing key.
IntGet(m, k) == IF k \in DOMAIN m THEN m[k] ELSE 0
\* a bucket of a Go map of maps: the nil (empty) map for a missing key.
BucketGet(m, k) == IF k \in DOMAIN m THEN m[k] ELSE EmptyMap

\* A bag of deliveries: how many times notify was called on each.
NoNotify == [d \in DeliveryIDs |-> 0]
BagAdd(a, b) == [d \in DeliveryIDs |-> a[d] + b[d]]
\* notify called once on every delivery of a bucket.
NotifyBucket(bucket) ==
  [d \in DeliveryIDs |-> Cardinality({s \in DOMAIN bucket : bucket[s].id = d})]

Ref(fb, p) == [folderBranch |-> fb, path |-> p]
NoRef == Ref(ZeroFB, <<>>)

\* ---------------------------------------------------------------- debounce

\* rate.Limit values: rate.Inf, or rate.Every(*deduplicateInterval).
Inf == "Inf"
Every == "Every"

\* ----------------------------------------------------------------- manager

VARIABLES
  pathSubscriptions,               \* ref -> (sid -> debouncedNotify)
  pathSubscriptionIDToRef,         \* sid -> ref
  nonPathSubscriptions,            \* topic -> (sid -> debouncedNotify)
  nonPathSubscriptionIDToTopic,    \* sid -> topic
  subscriptionIDs,                 \* the set of active sids
  subscriptionCountByFolderBranch, \* fb -> int
  registered,                      \* Notifier: the fbs this manager observes
  live,                            \* the deliveries whose context is not cancelled
  last,                            \* the last call: its arguments, result and the calls it made
  trace                            \* the calls of a recorded run (TraceSpec)

mgrVars == <<pathSubscriptions, pathSubscriptionIDToRef, nonPathSubscriptions,
             nonPathSubscriptionIDToTopic, subscriptionIDs,
             subscriptionCountByFolderBranch>>
envVars == <<registered, live>>

\* newSubscriptionManager: every map empty. The record also carries the
\* Notifier's and the deliveries' state and what one call does to them:
\* calls (RegisterForChanges / UnregisterFromChanges, in order), created and
\* shut (deliveries started by debounce, deliveries whose shutdown was called).
newSubscriptionManager ==
  [ pathSubscriptions |-> EmptyMap,
    pathSubscriptionIDToRef |-> EmptyMap,
    nonPathSubscriptions |-> EmptyMap,
    nonPathSubscriptionIDToTopic |-> EmptyMap,
    subscriptionIDs |-> {},
    subscriptionCountByFolderBranch |-> EmptyMap,
    registered |-> {},
    live |-> {},
    calls |-> <<>>,
    created |-> {},
    shut |-> {} ]

\* checkSubscriptionIDLocked: TRUE when it returns the duplicate error.
checkSubscriptionIDLocked_PathOnly(m, sid) == sid \in DOMAIN m.pathSubscriptionIDToRef

checkSubscriptionIDLocked(m, sid) == sid \in m.subscriptionIDs

registerForChangesLocked(m, fb) ==
  LET m1 == IF IntGet(m.subscriptionCountByFolderBranch, fb) = 0
            THEN [m EXCEPT !.registered = @ \cup {fb},
                           !.calls = Append(@, [call |-> "RegisterForChanges", fb |-> fb])]
            ELSE m
  IN [m1 EXCEPT !.subscriptionCountByFolderBranch =
                   MapSet(@, fb, IntGet(@, fb) + 1)]

unregisterForChangesLocked_Always(m, fb) ==
  [m EXCEPT !.registered = @ \ {fb},
            !.calls = Append(@, [call |-> "UnregisterFromChanges", fb |-> fb]),
            !.subscriptionCountByFolderBranch = MapDel(@, fb)]

unregisterForChangesLocked(m, fb) ==
  IF IntGet(m.subscriptionCountByFolderBranch, fb) = 1
  THEN [m EXCEPT !.registered = @ \ {fb},
                 !.calls = Append(@, [call |-> "UnregisterFromChanges", fb |-> fb]),
                 !.subscriptionCountByFolderBranch = MapDel(@, fb)]
  ELSE [m EXCEPT !.subscriptionCountByFolderBranch =
                    MapSet(@, fb, IntGet(@, fb) - 1)]

\* debounce, as the manager sees it: a new background task with its own
\* context and channel, named by an id no live delivery has.
debounce(m, limit) ==
  LET id == CHOOSE d \in DeliveryIDs \ m.live : \A e \in DeliveryIDs \ m.live : d <= e
  IN [ m |-> [m EXCEPT !.live = @ \cup {id}, !.created = @ \cup {id}],
       delivery |-> [id |-> id, limit |-> limit] ]

\* notifier.shutdown(): cancels the delivery's context.
shutdown(m, delivery) ==
  [m EXCEPT !.live = @ \ {delivery.id}, !.shut = @ \cup {delivery.id}]

rateLimit(dedup) == IF dedup THEN Every ELSE Inf

\* subscribePath without its test for the zero FolderBranch.
subscribePath_NoZeroTest(m, sid, userPath, dedup) ==
  IF userPath.err # "nil" THEN [m |-> m, err |-> userPath.err]
  ELSE
    LET ref == Ref(userPath.fb, getCleanInTlfPath(userPath.rawInTlfPath))
    IN IF checkSubscriptionIDLocked(m, sid) THEN [m |-> m, err |-> "duplicate"]
       ELSE
         LET m1 == registerForChangesLocked(m, ref.folderBranch)
             d == debounce(m1, rateLimit(dedup))
         IN [ m |-> [d.m EXCEPT
                       !.pathSubscriptions =
                          MapSet(@, ref, MapSet(BucketGet(@, ref), sid, d.delivery)),
                       !.pathSubscriptionIDToRef = MapSet(@, sid, ref),
                       !.subscriptionIDs = @ \cup {sid}],
              err |-> "nil" ]

subscribePath(m, sid, userPath, dedup) ==
  IF userPath.err # "nil" THEN [m |-> m, err |-> userPath.err]
  ELSE IF userPath.fb = ZeroFB THEN [m |-> m, err |-> "nil"]
  ELSE
    LET ref == Ref(userPath.fb, getCleanInTlfPath(userPath.rawInTlfPath))
    IN IF checkSubscriptionIDLocked(m, sid) THEN [m |-> m, err |-> "duplicate"]
       ELSE
         LET m1 == registerForChangesLocked(m, ref.folderBranch)
             d == debounce(m1, rateLimit(dedup))
         IN [ m |-> [d.m EXCEPT
                       !.pathSubscriptions =
                          MapSet(@, ref, MapSet(BucketGet(@, ref), sid, d.delivery)),
                       !.pathSubscriptionIDToRef = MapSet(@, sid, ref),
                       !.subscriptionIDs = @ \cup {sid}],
              err |-> "nil" ]

\* subscribeNonPath with the topic's bucket made before the SID is checked.
subscribeNonPath_BucketFirst(m, sid, topic, dedup) ==
  LET m0 == [m EXCEPT !.nonPathSubscriptions =
                         MapSet(@, topic, BucketGet(@, topic))]
  IN IF checkSubscriptionIDLocked(m0, sid) THEN [m |-> m0, err |-> "duplicate"]
     ELSE
       LET d == debounce(m0, rateLimit(dedup))
       IN [ m |-> [d.m EXCEPT
                     !.nonPathSubscriptions =
                        MapSet(@, topic, MapSet(BucketGet(@, topic), sid, d.delivery)),
                     !.nonPathSubscriptionIDToTopic = MapSet(@, sid, topic),
                     !.subscriptionIDs = @ \cup {sid}],
            err |-> "nil" ]

subscribeNonPath(m, sid, topic, dedup) ==
  IF checkSubscriptionIDLocked(m, sid) THEN [m |-> m, err |-> "duplicate"]
  ELSE
    LET d == debounce(m, rateLimit(dedup))
    IN [ m |-> [d.m EXCEPT
                  !.nonPathSubscriptions =
                     MapSet(@, topic, MapSet(BucketGet(@, topic), sid, d.delivery)),
                  !.nonPathSubscriptionIDToTopic = MapSet(@, sid, topic),
                  !.subscriptionIDs = @ \cup {sid}],
         err |-> "nil" ]

\* unsubscribePath without its two early returns: a missing sid reads the
\* zero ref and goes on to the empty-bucket branch.
unsubscribePath_NoEarlyReturn(m, sid) ==
  LET ref == IF sid \in DOMAIN m.pathSubscriptionIDToRef
             THEN m.pathSubscriptionIDToRef[sid] ELSE NoRef
      m1 == [m EXCEPT !.pathSubscriptionIDToRef = MapDel(@, sid)]
      bucket == BucketGet(m1.pathSubscriptions, ref)
      m2 == IF sid \in DOMAIN bucket
            THEN [shutdown(m1, bucket[sid]) EXCEPT
                    !.pathSubscriptions = MapSet(@, ref, MapDel(bucket, sid))]
            ELSE m1
      m3 == IF DOMAIN BucketGet(m2.pathSubscriptions, ref) = {}
            THEN [unregisterForChangesLocked(m2, ref.folderBranch) EXCEPT
                    !.pathSubscriptions = MapDel(@, ref)]
            ELSE m2
  IN [m3 EXCEPT !.subscriptionIDs = @ \ {sid}]

\* unsubscribePath shutting the delivery down and leaving it in its bucket.
unsubscribePath_ShutdownOnly(m, sid) ==
  IF sid \notin DOMAIN m.pathSubscriptionIDToRef THEN m
  ELSE
    LET ref == m.pathSubscriptionIDToRef[sid]
        m1 == [m EXCEPT !.pathSubscriptionIDToRef = MapDel(@, sid)]
    IN IF ref \notin DOMAIN m1.pathSubscriptions THEN m1
       ELSE
         LET bucket == m1.pathSubscriptions[ref]
             m2 == IF sid \in DOMAIN bucket THEN shutdown(m1, bucket[sid]) ELSE m1
         IN [m2 EXCEPT !.subscriptionIDs = @ \ {sid}]

\* unsubscribePath leaving the emptied bucket in pathSubscriptions.
unsubscribePath_KeepsBucket(m, sid) ==
  IF sid \notin DOMAIN m.pathSubscriptionIDToRef THEN m
  ELSE
    LET ref == m.pathSubscriptionIDToRef[sid]
        m1 == [m EXCEPT !.pathSubscriptionIDToRef = MapDel(@, sid)]
    IN IF ref \notin DOMAIN m1.pathSubscriptions THEN m1
       ELSE
         LET bucket == m1.pathSubscriptions[ref]
             m2 == IF sid \in DOMAIN bucket
                   THEN [shutdown(m1, bucket[sid]) EXCEPT
                           !.pathSubscriptions = MapSet(@, ref, MapDel(bucket, sid))]
                   ELSE m1
             m3 == IF DOMAIN m2.pathSubscriptions[ref] = {}
                   THEN unregisterForChangesLocked(m2, ref.folderBranch)
                   ELSE m2
         IN [m3 EXCEPT !.subscriptionIDs = @ \ {sid}]

unsubscribePath(m, sid) ==
  IF sid \notin DOMAIN m.pathSubscriptionIDToRef THEN m
  ELSE
    LET ref == m.pathSubscriptionIDToRef[sid]
        m1 == [m EXCEPT !.pathSubscriptionIDToRef = MapDel(@, sid)]
    IN IF ref \notin DOMAIN m1.pathSubscriptions THEN m1
       ELSE
         LET bucket == m1.pathSubscriptions[ref]
             m2 == IF sid \in DOMAIN bucket
                   THEN [shutdown(m1, bucket[sid]) EXCEPT
                           !.pathSubscriptions = MapSet(@, ref, MapDel(bucket, sid))]
                   ELSE m1
             m3 == IF DOMAIN m2.pathSubscriptions[ref] = {}
                   THEN [unregisterForChangesLocked(m2, ref.folderBranch) EXCEPT
                           !.pathSubscriptions = MapDel(@, ref)]
                   ELSE m2
         IN [m3 EXCEPT !.subscriptionIDs = @ \ {sid}]

\* unsubscribeNonPath without its last statement.
unsubscribeNonPath_KeepsID(m, sid) ==
  IF sid \notin DOMAIN m.nonPathSubscriptionIDToTopic THEN m
  ELSE
    LET topic == m.nonPathSubscriptionIDToTopic[sid]
        m1 == [m EXCEPT !.nonPathSubscriptionIDToTopic = MapDel(@, sid)]
    IN IF topic \notin DOMAIN m1.nonPathSubscriptions THEN m1
       ELSE
         LET bucket == m1.nonPathSubscriptions[topic]
         IN IF sid \in DOMAIN bucket
            THEN [shutdown(m1, bucket[sid]) EXCEPT
                    !.nonPathSubscriptions = MapSet(@, topic, MapDel(bucket, sid))]
            ELSE m1

unsubscribeNonPath(m, sid) ==
  IF sid \notin DOMAIN m.nonPathSubscriptionIDToTopic THEN m
  ELSE
    LET topic == m.nonPathSubscriptionIDToTopic[sid]
        m1 == [m EXCEPT !.nonPathSubscriptionIDToTopic = MapDel(@, sid)]
    IN IF topic \notin DOMAIN m1.nonPathSubscriptions THEN m1
       ELSE
         LET bucket == m1.nonPathSubscriptions[topic]
             m2 == IF sid \in DOMAIN bucket
                   THEN [shutdown(m1, bucket[sid]) EXCEPT
                           !.nonPathSubscriptions = MapSet(@, topic, MapDel(bucket, sid))]
                   ELSE m1
         IN [m2 EXCEPT !.subscriptionIDs = @ \ {sid}]

\* subscriber.Unsubscribe: unsubscribePath, then unsubscribeNonPath.
Unsubscribe(m, sid) == unsubscribeNonPath(unsubscribePath(m, sid), sid)

\* notifyRef: the notify calls made for one ref.
notifyRef(m, ref) ==
  IF ref \notin DOMAIN m.pathSubscriptions THEN NoNotify
  ELSE NotifyBucket(m.pathSubscriptions[ref])

\* nodeChangeLocked: the notify calls made for one changed node.
nodeChangeLocked(m, node) ==
  IF ~node.ok THEN NoNotify
  ELSE
    LET cleanPath == node.path
        parent == getParentPath(cleanPath)
    IN BagAdd(notifyRef(m, Ref(node.fb, cleanPath)),
              IF parent.ok THEN notifyRef(m, Ref(node.fb, parent.parent)) ELSE NoNotify)

\* BatchChanges' loop over the changes.
RECURSIVE nodeChangesLocked(_, _)
nodeChangesLocked(m, nodes) ==
  IF nodes = <<>> THEN NoNotify
  ELSE BagAdd(nodeChangeLocked(m, nodes[1]), nodeChangesLocked(m, Tail(nodes)))

\* The union of notify calls over a set of buckets of one index.
RECURSIVE notifyBuckets(_, _)
notifyBuckets(index, keys) ==
  IF keys = {} THEN NoNotify
  ELSE LET k == CHOOSE x \in keys : TRUE
       IN BagAdd(NotifyBucket(index[k]), notifyBuckets(index, keys \ {k}))

\* PublishChange with the topic test dropped: every topic notifies the paths.
PublishChange_AllTopics(m, topic) ==
  BagAdd(notifyBuckets(m.pathSubscriptions, DOMAIN m.pathSubscriptions),
         IF topic \notin DOMAIN m.nonPathSubscriptions THEN NoNotify
         ELSE NotifyBucket(m.nonPathSubscriptions[topic]))

\* subscriptionManager.PublishChange: the notify calls it makes.
PublishChange(m, topic) ==
  BagAdd(IF topic = OverallSyncStatusTopic
         THEN notifyBuckets(m.pathSubscriptions, DOMAIN m.pathSubscriptions)
         ELSE NoNotify,
         IF topic \notin DOMAIN m.nonPathSubscriptions THEN NoNotify
         ELSE NotifyBucket(m.nonPathSubscriptions[topic]))

\* notifyOnlineStatus: the notify calls it makes.
notifyOnlineStatus(m) ==
  IF OnlineStatusTopic \notin DOMAIN m.nonPathSubscriptions THEN NoNotify
  ELSE NotifyBucket(m.nonPathSubscriptions[OnlineStatusTopic])

\* ------------------------------------------------- the debounce primitive

VARIABLES
  dLimit,      \* the limit debounce was called with
  ch,          \* the number of items in the channel of capacity 1
  cancelled,   \* ctx.Done() is closed (shutdown was called)
  loopPc,      \* the background loop: "wait", "sleep", "select" or "done"
  nextToken,   \* the limiter: the time its next token is there
  wakeAt,      \* the time the loop's reservation in limiter.Wait is due
  now,         \* the clock
  callerPc,    \* each caller of notify: "idle" or "sending"
  called,      \* notify calls begun
  sent,        \* notify calls that put an item into the channel
  dropped,     \* notify calls that returned without putting one
  started,     \* callback invocations started (go do())
  running,     \* callback invocations started and not yet finished
  startedAt,   \* the clock's time at the last go do(); -1: there was none
  late,        \* the callers in a notify call that began after shutdown
  lateItem     \* the item in the channel was put by such a call

dbVars == <<dLimit, ch, cancelled, loopPc, nextToken, wakeAt, now, callerPc,
            called, sent, dropped, started, running, startedAt, late, lateItem>>

\* What is recorded of a delivery's run beside its own state.
obsVars == <<startedAt, late, lateItem>>

\* The threads that call one manager at the same time.
VARIABLES
  lock,        \* sm.lock: "free", or the call that holds it exclusively
  unsubPc,     \* the Unsubscribe call in progress: its sid and where it is
  shPc,        \* Shutdown of the manager: where it is
  pathSids,    \* Shutdown's pathSids not yet unsubscribed
  nonPathSids  \* Shutdown's nonPathSids not yet unsubscribed

thVars == <<lock, unsubPc, shPc, pathSids, nonPathSids>>

\* The single manager of the runs above, its recorded calls and its threads.
singleVars == <<mgrVars, envVars, last, trace, thVars>>

\* The registry of per-client managers (subscriptionManagerManager).
VARIABLES
  subscriptionManagers,    \* client ID -> the manager registered for it: its number
                           \* in order of creation, what it holds, and the purgeable
                           \* its get was called with
  purgeableClientIDsFIFO,  \* the purgeable client IDs, oldest first
  smmLock,                 \* smm.lock: "free", or the call that holds it
  created,                 \* the number of managers newSubscriptionManager has made
  lastShutdown,            \* the manager whose Shutdown returned last, what it held
                           \* then and what that Shutdown did; sm 0: none
  heldManagerLock,         \* the manager whose sm.lock the holder of smm.lock holds; 0: none
  getPc,                   \* each get call: "idle", "missed", "locked", "evicting", "returned"
  getArg,                  \* its clientID and purgeable
  got,                     \* the manager get has just returned to the thread; 0: none
  todo                     \* the client IDs Shutdown or PublishChange has yet to visit

regVars == <<subscriptionManagers, purgeableClientIDsFIFO, smmLock, created, lastShutdown,
             heldManagerLock, getPc, getArg, got, todo>>

\* Everything but the state of the one delivery modelled in steps.
mgrAll == <<singleVars, regVars>>

vars == <<mgrAll, dbVars>>

\* ------------------------------------------------------- manager actions

\* The manager, the Notifier and the deliveries as one record, before a call.
Manager ==
  [ pathSubscriptions |-> pathSubscriptions,
    pathSubscriptionIDToRef |-> pathSubscriptionIDToRef,
    nonPathSubscriptions |-> nonPathSubscriptions,
    nonPathSubscriptionIDToTopic |-> nonPathSubscriptionIDToTopic,
    subscriptionIDs |-> subscriptionIDs,
    subscriptionCountByFolderBranch |-> subscriptionCountByFolderBranch,
    registered |-> registered,
    live |-> live,
    calls |-> <<>>,
    created |-> {},
    shut |-> {} ]

SetManager(m) ==
  /\ pathSubscriptions' = m.pathSubscriptions
  /\ pathSubscriptionIDToRef' = m.pathSubscriptionIDToRef
  /\ nonPathSubscriptions' = m.nonPathSubscriptions
  /\ nonPathSubscriptionIDToTopic' = m.nonPathSubscriptionIDToTopic
  /\ subscriptionIDs' = m.subscriptionIDs
  /\ subscriptionCountByFolderBranch' = m.subscriptionCountByFolderBranch
  /\ registered' = m.registered
  /\ live' = m.live

NoCall ==
  [ op |-> "new", sid |-> "", res |-> "none", ref |-> NoRef, topic |-> "",
    nodes |-> <<>>, err |-> "nil", calls |-> <<>>, created |-> {}, shut |-> {},
    notified |-> NoNotify ]

\* How the resolution of a user path ended.
Resolution(userPath) ==
  IF userPath.err # "nil" THEN "error"
  ELSE IF userPath.fb = ZeroFB THEN "zero" ELSE "ok"

ResolvedRef(userPath) ==
  IF Resolution(userPath) = "ok"
  THEN Ref(userPath.fb, getCleanInTlfPath(userPath.rawInTlfPath)) ELSE NoRef

\* The model stops subscribing once a count or the number of tasks is at its bound.
CanSubscribe ==
  /\ \A fb \in FBs : IntGet(subscriptionCountByFolderBranch, fb) < MaxCount
  /\ Cardinality(live) < MaxDeliveries

SubscribePathCall(sid, userPath, dedup) ==
  /\ CanSubscribe
  /\ LET r == subscribePath(Manager, sid, userPath, dedup)
     IN /\ SetManager(r.m)
        /\ last' = [NoCall EXCEPT !.op = "subscribePath", !.sid = sid,
                                  !.res = Resolution(userPath),
                                  !.ref = ResolvedRef(userPath),
                                  !.err = r.err, !.calls = r.m.calls,
                                  !.created = r.m.created, !.shut = r.m.shut]

SubscribeNonPathCall(sid, topic, dedup) ==
  /\ CanSubscribe
  /\ LET r == subscribeNonPath(Manager, sid, topic, dedup)
     IN /\ SetManager(r.m)
        /\ last' = [NoCall EXCEPT !.op = "subscribeNonPath", !.sid = sid,
                                  !.topic = topic,
                                  !.err = r.err, !.calls = r.m.calls,
                                  !.created = r.m.created, !.shut = r.m.shut]

UnsubscribeCall(sid) ==
  LET m == Unsubscribe(Manager, sid)
  IN /\ SetManager(m)
     /\ last' = [NoCall EXCEPT !.op = "Unsubscribe", !.sid = sid,
                               !.calls = m.calls, !.created = m.created,
                               !.shut = m.shut]

\* No call is in progress: the caller has taken the result of the last one.
Idle == last = NoCall

\* The nodes batches are made of: a path with its child, and an unrelated one.
BatchNodes ==
  { [fb |-> "fb1", path |-> p, ok |-> TRUE] :
      p \in { <<"/", "a", "/", "b">>, <<"/", "a", "/", "b", "/", "c">>, <<"/", "x">> } }

\* The batches of changes: up to MaxBatch nodes.
Batches == UNION { [1..n -> BatchNodes] : n \in 1..MaxBatch }

SubscribePath ==
  \E sid \in SIDs, userPath \in UserPaths, dedup \in PathDedupChoices :
    /\ Idle
    /\ SubscribePathCall(sid, userPath, dedup)
    /\ UNCHANGED <<trace, thVars, dbVars, regVars>>

SubscribeNonPath ==
  \E sid \in SIDs, topic \in Topics, dedup \in NonPathDedupChoices :
    /\ Idle
    /\ SubscribeNonPathCall(sid, topic, dedup)
    /\ UNCHANGED <<trace, thVars, dbVars, regVars>>

UnsubscribeSID ==
  \E sid \in SIDs :
    /\ Idle
    /\ UnsubscribeCall(sid)
    /\ UNCHANGED <<trace, thVars, dbVars, regVars>>

LocalChange ==
  \E node \in Nodes :
    /\ Idle
    /\ last' = [NoCall EXCEPT !.op = "LocalChange", !.nodes = <<node>>,
                              !.notified = nodeChangeLocked(Manager, node)]
    /\ UNCHANGED <<mgrVars, envVars, trace, thVars, dbVars, regVars>>

BatchChanges ==
  \E changes \in Batches :
    /\ Idle
    /\ last' = [NoCall EXCEPT !.op = "BatchChanges", !.nodes = changes,
                              !.notified = nodeChangesLocked(Manager, changes)]
    /\ UNCHANGED <<mgrVars, envVars, trace, thVars, dbVars, regVars>>

ManagerPublishChange ==
  \E topic \in Topics :
    /\ Idle
    /\ last' = [NoCall EXCEPT !.op = "PublishChange", !.topic = topic,
                              !.notified = PublishChange(Manager, topic)]
    /\ UNCHANGED <<mgrVars, envVars, trace, thVars, dbVars, regVars>>

NotifyOnlineStatus ==
  /\ Idle
  /\ last' = [NoCall EXCEPT !.op = "notifyOnlineStatus",
                            !.notified = notifyOnlineStatus(Manager)]
  /\ UNCHANGED <<mgrVars, envVars, trace, thVars, dbVars, regVars>>

\* The call returns to its caller, who takes its result.
Return ==
  /\ ~Idle
  /\ last' = NoCall
  /\ UNCHANGED <<mgrVars, envVars, trace, thVars, dbVars, regVars>>

\* The threads that call get, the client IDs they pass, and what a thread
\* that has not called get has as its arguments.
Getters == 1..NumGetters
PurgeableClientIDs == <<"c1", "c2", "c3", "c4">>
ClientIDs == {PurgeableClientIDs[k] : k \in 1..Len(PurgeableClientIDs)} \cup {"n1"}
NoGet == [clientID |-> "", purgeable |-> FALSE]

\* The arguments of the get calls: the clients c1.. ask for purgeable
\* managers, the client n1 for either kind.
GetArgs ==
  { arg \in [clientID : ClientIDs, purgeable : BOOLEAN] :
      arg.clientID = "n1" \/ arg.purgeable }

NoShutdown == [sm |-> 0, m |-> newSubscriptionManager]

newSubscriptionManagerManager ==
  [ subscriptionManagers |-> EmptyMap, purgeableClientIDsFIFO |-> <<>> ]

\* No Unsubscribe call is in progress.
NoUnsubscribe == [sid |-> "", at |-> "idle"]

ManagerInit ==
  /\ pathSubscriptions = newSubscriptionManager.pathSubscriptions
  /\ pathSubscriptionIDToRef = newSubscriptionManager.pathSubscriptionIDToRef
  /\ nonPathSubscriptions = newSubscriptionManager.nonPathSubscriptions
  /\ nonPathSubscriptionIDToTopic = newSubscriptionManager.nonPathSubscriptionIDToTopic
  /\ subscriptionIDs = newSubscriptionManager.subscriptionIDs
  /\ subscriptionCountByFolderBranch = newSubscriptionManager.subscriptionCountByFolderBranch
  /\ registered = newSubscriptionManager.registered
  /\ live = newSubscriptionManager.live
  /\ last = NoCall
  /\ trace = <<>>
  /\ lock = "free"
  /\ unsubPc = NoUnsubscribe
  /\ shPc = "idle"
  /\ pathSids = {}
  /\ nonPathSids = {}
  /\ subscriptionManagers = newSubscriptionManagerManager.subscriptionManagers
  /\ purgeableClientIDsFIFO = newSubscriptionManagerManager.purgeableClientIDsFIFO
  /\ smmLock = "free"
  /\ created = 0
  /\ lastShutdown = NoShutdown
  /\ heldManagerLock = 0
  /\ getPc = [t \in Getters |-> "idle"]
  /\ getArg = [t \in Getters |-> NoGet]
  /\ got = [t \in Getters |-> 0]
  /\ todo = {}

\* ------------------------------------------------------- recorded runs

\* One effective path call of a recorded run and the Notifier calls it made.
TraceEntry(c) == [op |-> c.op, sid |-> c.sid, ref |-> c.ref, calls |-> c.calls]

TracedSubscribePath ==
  \E sid \in SIDs, userPath \in UserPaths :
    /\ Len(trace) < MaxTrace
    /\ SubscribePathCall(sid, userPath, FALSE)
    /\ pathSubscriptionIDToRef' # pathSubscriptionIDToRef
    /\ trace' = Append(trace, TraceEntry(last'))
    /\ UNCHANGED <<thVars, dbVars, regVars>>

TracedUnsubscribe ==
  \E sid \in SIDs :
    /\ Len(trace) < MaxTrace
    /\ UnsubscribeCall(sid)
    /\ pathSubscriptionIDToRef' # pathSubscriptionIDToRef
    /\ trace' = Append(trace, [TraceEntry(last') EXCEPT !.ref = pathSubscriptionIDToRef[sid]])
    /\ UNCHANGED <<thVars, dbVars, regVars>>

\* ------------------------------------------------------ debounce actions

Callers == 1..NumCallers

\* debounce(do, limit): the context, the channel of capacity 1, the limiter
\* of burst 1 (its first token is there) and the loop about to call Wait.
DebounceStart(limit) ==
  /\ dLimit = limit
  /\ ch = 0
  /\ cancelled = FALSE
  /\ loopPc = "wait"
  /\ nextToken = 0
  /\ wakeAt = 0
  /\ now = 0
  /\ callerPc = [c \in Callers |-> "idle"]
  /\ called = 0
  /\ sent = 0
  /\ dropped = 0
  /\ started = 0
  /\ running = 0
  /\ startedAt = -1
  /\ late = {}
  /\ lateItem = FALSE

\* The sender getChSender returns, applied to a channel holding c items:
\* whether the send statement can complete now, and whether it puts an item.
getChSender_DefaultFirst(blocking, c) == [ready |-> TRUE, puts |-> FALSE]

getChSender_NeverBlocks(blocking, c) == [ready |-> TRUE, puts |-> c = 0]

getChSender(blocking, c) ==
  IF blocking THEN [ready |-> c = 0, puts |-> TRUE]
  ELSE [ready |-> TRUE, puts |-> c = 0]

\* The time between two tokens of rate.NewLimiter(limit, 1).
TokenEvery(limit) == IF limit = Inf THEN 0 ELSE Interval

\* A thread calls notify.
NotifyCall(c) ==
  /\ callerPc[c] = "idle"
  /\ called < MaxNotify
  /\ callerPc' = [callerPc EXCEPT ![c] = "sending"]
  /\ called' = called + 1
  /\ late' = IF cancelled THEN late \cup {c} ELSE late
  /\ UNCHANGED <<mgrAll, startedAt, lateItem, dLimit, ch, cancelled, loopPc, nextToken, wakeAt, now, sent,
                 dropped, started, running>>

\* The send of the notify call completes (or, not blocking, gives up).
NotifySend(c) ==
  /\ callerPc[c] = "sending"
  /\ LET sender == getChSender(dLimit = Inf, ch)
     IN /\ sender.ready
        /\ ch' = IF sender.puts THEN ch + 1 ELSE ch
        /\ sent' = IF sender.puts THEN sent + 1 ELSE sent
        /\ dropped' = IF sender.puts THEN dropped ELSE dropped + 1
        /\ lateItem' = IF sender.puts THEN c \in late ELSE lateItem
  /\ callerPc' = [callerPc EXCEPT ![c] = "idle"]
  /\ late' = late \ {c}
  /\ UNCHANGED <<mgrAll, startedAt, dLimit, cancelled, loopPc, nextToken, wakeAt, now, called,
                 started, running>>

\* limiter.Wait(ctx) is called: an error when ctx is done; otherwise a token
\* is reserved, at once when one is there, else for the time it will be.
LoopWait ==
  /\ loopPc = "wait"
  /\ IF cancelled
     THEN /\ loopPc' = "done"
          /\ UNCHANGED <<nextToken, wakeAt>>
     ELSE LET due == IF nextToken > now THEN nextToken ELSE now
          IN /\ nextToken' = due + TokenEvery(dLimit)
             /\ wakeAt' = due
             /\ loopPc' = IF due = now THEN "select" ELSE "sleep"
  /\ UNCHANGED <<mgrAll, obsVars, dLimit, ch, cancelled, now, callerPc, called, sent, dropped,
                 started, running>>

\* limiter.Wait's timer fires.
LoopWake ==
  /\ loopPc = "sleep"
  /\ now >= wakeAt
  /\ loopPc' = "select"
  /\ UNCHANGED <<mgrAll, obsVars, dLimit, ch, cancelled, nextToken, wakeAt, now, callerPc,
                 called, sent, dropped, started, running>>

\* limiter.Wait returns ctx's error while waiting for its timer.
LoopWaitCancelled ==
  /\ loopPc = "sleep"
  /\ cancelled
  /\ loopPc' = "done"
  /\ UNCHANGED <<mgrAll, obsVars, dLimit, ch, cancelled, nextToken, wakeAt, now, callerPc,
                 called, sent, dropped, started, running>>

\* case <-ch: do(), the loop running the callback itself.
LoopReceive_Inline ==
  /\ loopPc = "select"
  /\ ch > 0
  /\ running = 0
  /\ ch' = ch - 1
  /\ started' = started + 1
  /\ running' = running + 1
  /\ startedAt' = now
  /\ lateItem' = FALSE
  /\ loopPc' = "wait"
  /\ UNCHANGED <<mgrAll, late, dLimit, cancelled, nextToken, wakeAt, now, callerPc, called,
                 sent, dropped>>

\* case <-ch: go do()
LoopReceive ==
  /\ loopPc = "select"
  /\ ch > 0
  /\ ch' = ch - 1
  /\ started' = started + 1
  /\ running' = running + 1
  /\ startedAt' = now
  /\ lateItem' = FALSE
  /\ loopPc' = "wait"
  /\ UNCHANGED <<mgrAll, late, dLimit, cancelled, nextToken, wakeAt, now, callerPc, called,
                 sent, dropped>>

\* case <-ctx.Done(): return
LoopDone ==
  /\ loopPc = "select"
  /\ cancelled
  /\ loopPc' = "done"
  /\ UNCHANGED <<mgrAll, obsVars, dLimit, ch, cancelled, nextToken, wakeAt, now, callerPc,
                 called, sent, dropped, started, running>>

\* A callback started by go do() returns.
DoReturns ==
  /\ running > 0
  /\ running' = running - 1
  /\ UNCHANGED <<mgrAll, obsVars, dLimit, ch, cancelled, loopPc, nextToken, wakeAt, now,
                 callerPc, called, sent, dropped, started>>

\* The delivery's shutdown function: cancels ctx.
DebounceShutdown ==
  /\ ~cancelled
  /\ cancelled' = TRUE
  /\ UNCHANGED <<mgrAll, obsVars, dLimit, ch, loopPc, nextToken, wakeAt, now, callerPc, called,
                 sent, dropped, started, running>>

\* The clock advances: up to MaxTime, and beyond it for as long as the loop
\* sleeps in limiter.Wait for a time that has not come.
Tick ==
  /\ now < MaxTime \/ (loopPc = "sleep" /\ now < wakeAt)
  /\ now' = now + 1
  /\ UNCHANGED <<mgrAll, obsVars, dLimit, ch, cancelled, loopPc, nextToken, wakeAt, callerPc,
                 called, sent, dropped, started, running>>

Loop == LoopWait \/ LoopWake \/ LoopWaitCancelled \/ LoopReceive \/ LoopDone

\* ------------------------------------------- one manager, many threads

\* The process has not died of a fatal runtime error.
Running == shPc # "fatal"

\* subscribePath / subscribeNonPath take sm.lock.
SubscribeLock ==
  /\ Running
  /\ lock = "free"
  /\ CanSubscribe
  /\ lock' = "subscribe"
  /\ UNCHANGED <<mgrVars, envVars, last, trace, unsubPc, shPc, pathSids, nonPathSids, dbVars, regVars>>

\* The user paths the subscribing thread passes: they have resolved, or
\* subscribePath would have returned before the lock.
ThreadUserPaths ==
  { [err |-> "nil", fb |-> fb, rawInTlfPath |-> r] : fb \in FBs, r \in {Root, <<"/", "a">>} }

\* subscribePath from the lock to its deferred Unlock.
LockedSubscribePath ==
  \E sid \in SIDs, userPath \in ThreadUserPaths, dedup \in PathDedupChoices :
    /\ Running
    /\ lock = "subscribe"
    /\ SetManager(subscribePath(Manager, sid, userPath, dedup).m)
    /\ lock' = "free"
    /\ UNCHANGED <<last, trace, unsubPc, shPc, pathSids, nonPathSids, dbVars, regVars>>

LockedSubscribeNonPath ==
  \E sid \in SIDs, topic \in Topics, dedup \in PathDedupChoices :
    /\ Running
    /\ lock = "subscribe"
    /\ SetManager(subscribeNonPath(Manager, sid, topic, dedup).m)
    /\ lock' = "free"
    /\ UNCHANGED <<last, trace, unsubPc, shPc, pathSids, nonPathSids, dbVars, regVars>>

\* subscriber.Unsubscribe(sid): unsubscribePath takes the lock.
UnsubscribePathLock ==
  \E sid \in SIDs :
    /\ Running
    /\ unsubPc.at = "idle"
    /\ lock = "free"
    /\ lock' = "Unsubscribe"
    /\ unsubPc' = [sid |-> sid, at |-> "unsubscribePath"]
    /\ UNCHANGED <<mgrVars, envVars, last, trace, shPc, pathSids, nonPathSids, dbVars, regVars>>

LockedUnsubscribePath ==
  /\ Running
  /\ lock = "Unsubscribe"
  /\ unsubPc.at = "unsubscribePath"
  /\ SetManager(unsubscribePath(Manager, unsubPc.sid))
  /\ lock' = "free"
  /\ unsubPc' = [unsubPc EXCEPT !.at = "between"]
  /\ UNCHANGED <<last, trace, shPc, pathSids, nonPathSids, dbVars, regVars>>

\* Unsubscribe goes on to unsubscribeNonPath, which takes the lock again.
UnsubscribeNonPathLock ==
  /\ Running
  /\ unsubPc.at = "between"
  /\ lock = "free"
  /\ lock' = "Unsubscribe"
  /\ unsubPc' = [unsubPc EXCEPT !.at = "unsubscribeNonPath"]
  /\ UNCHANGED <<mgrVars, envVars, last, trace, shPc, pathSids, nonPathSids, dbVars, regVars>>

LockedUnsubscribeNonPath ==
  /\ Running
  /\ lock = "Unsubscribe"
  /\ unsubPc.at = "unsubscribeNonPath"
  /\ SetManager(unsubscribeNonPath(Manager, unsubPc.sid))
  /\ lock' = "free"
  /\ unsubPc' = NoUnsubscribe
  /\ UNCHANGED <<last, trace, shPc, pathSids, nonPathSids, dbVars, regVars>>

\* What ranging over a map without the lock can collect: the map's keys when
\* no writer holds the lock; when one does the read races with the write and
\* anything may be collected.
RangeUnlocked(index) == IF lock = "free" THEN {DOMAIN index} ELSE SUBSET SIDs

\* Shutdown collects pathSids, holding no lock.
ShutdownReadPathSids ==
  \E sids \in RangeUnlocked(pathSubscriptionIDToRef) :
    /\ Running
    /\ shPc = "idle"
    /\ pathSids' = sids
    /\ shPc' = "readNonPathSids"
    /\ UNCHANGED <<mgrVars, envVars, last, trace, lock, unsubPc, nonPathSids, dbVars, regVars>>

\* Shutdown collects nonPathSids, holding no lock.
ShutdownReadNonPathSids ==
  \E sids \in RangeUnlocked(nonPathSubscriptionIDToTopic) :
    /\ Running
    /\ shPc = "readNonPathSids"
    /\ nonPathSids' = sids
    /\ shPc' = "unsubscribePath"
    /\ UNCHANGED <<mgrVars, envVars, last, trace, lock, unsubPc, pathSids, dbVars, regVars>>

\* The runtime finds the map being written while Shutdown ranges over it:
\* "fatal error: concurrent map iteration and map write".
ShutdownReadFatal ==
  /\ shPc \in {"idle", "readNonPathSids"}
  /\ lock # "free"
  /\ shPc' = "fatal"
  /\ UNCHANGED <<mgrVars, envVars, last, trace, lock, unsubPc, pathSids, nonPathSids, dbVars, regVars>>

\* Shutdown's next unsubscribePath or unsubscribeNonPath takes the lock.
ShutdownLock ==
  /\ Running
  /\ \/ shPc = "unsubscribePath" /\ pathSids # {}
     \/ shPc = "unsubscribeNonPath" /\ nonPathSids # {}
  /\ lock = "free"
  /\ lock' = "Shutdown"
  /\ UNCHANGED <<mgrVars, envVars, last, trace, unsubPc, shPc, pathSids, nonPathSids, dbVars, regVars>>

ShutdownUnsubscribePath ==
  \E sid \in pathSids :
    /\ Running
    /\ shPc = "unsubscribePath"
    /\ lock = "Shutdown"
    /\ SetManager(unsubscribePath(Manager, sid))
    /\ pathSids' = pathSids \ {sid}
    /\ lock' = "free"
    /\ UNCHANGED <<last, trace, unsubPc, shPc, nonPathSids, dbVars, regVars>>

ShutdownUnsubscribeNonPath ==
  \E sid \in nonPathSids :
    /\ Running
    /\ shPc = "unsubscribeNonPath"
    /\ lock = "Shutdown"
    /\ SetManager(unsubscribeNonPath(Manager, sid))
    /\ nonPathSids' = nonPathSids \ {sid}
    /\ lock' = "free"
    /\ UNCHANGED <<last, trace, unsubPc, shPc, pathSids, dbVars, regVars>>

\* A loop of Shutdown is through; after the second one Shutdown returns.
ShutdownLoopEnds ==
  /\ Running
  /\ lock # "Shutdown"
  /\ \/ shPc = "unsubscribePath" /\ pathSids = {} /\ shPc' = "unsubscribeNonPath"
     \/ shPc = "unsubscribeNonPath" /\ nonPathSids = {} /\ shPc' = "done"
  /\ UNCHANGED <<mgrVars, envVars, last, trace, lock, unsubPc, pathSids, nonPathSids, dbVars, regVars>>

\* ------------------------------------------------------------ the registry

maxPurgeableSubscriptionManagerClient == 3

\* What the manager holds, without the record of the calls one operation made.
Held(m) == [m EXCEPT !.calls = <<>>, !.created = {}, !.shut = {}]

RECURSIVE unsubscribePaths(_, _)
unsubscribePaths(m, sids) ==
  IF sids = {} THEN m
  ELSE LET sid == CHOOSE s \in sids : TRUE
       IN unsubscribePaths(unsubscribePath(m, sid), sids \ {sid})

RECURSIVE unsubscribeNonPaths(_, _)
unsubscribeNonPaths(m, sids) ==
  IF sids = {} THEN m
  ELSE LET sid == CHOOSE s \in sids : TRUE
       IN unsubscribeNonPaths(unsubscribeNonPath(m, sid), sids \ {sid})

\* Shutdown without its second loop.
Shutdown_PathSidsOnly(m) == unsubscribePaths(m, DOMAIN m.pathSubscriptionIDToRef)

\* subscriptionManager.Shutdown with no other call on the manager meanwhile:
\* the SIDs of both reverse indices, then unsubscribePath and
\* unsubscribeNonPath of each.
Shutdown(m) ==
  unsubscribeNonPaths(unsubscribePaths(m, DOMAIN m.pathSubscriptionIDToRef),
                      DOMAIN m.nonPathSubscriptionIDToTopic)

\* Whether Shutdown of the manager takes sm.lock at all: only its
\* unsubscribePath and unsubscribeNonPath calls do.
ShutdownLocks(m) ==
  DOMAIN m.pathSubscriptionIDToRef \cup DOMAIN m.nonPathSubscriptionIDToTopic # {}

\* The manager registered for a client ID, and the client ID of a manager.
ManagerOf(clientID) == subscriptionManagers[clientID].sm
ClientOf(sm) == CHOOSE c \in DOMAIN subscriptionManagers : subscriptionManagers[c].sm = sm

\* The registry's map with the manager of clientID shut down.
ShutdownIn(registry, clientID) ==
  [registry EXCEPT ![clientID].m = Held(Shutdown(@))]

\* The record of that Shutdown.
ShutdownOf(clientID) ==
  [sm |-> ManagerOf(clientID), m |-> Shutdown(subscriptionManagers[clientID].m)]

\* The client ID Shutdown and PublishChange visit next: Go ranges over the
\* map in an order of its choosing, here the order of creation.
NextOf(clientIDs) ==
  CHOOSE c \in clientIDs : \A d \in clientIDs : ManagerOf(c) <= ManagerOf(d)

\* No get call has panicked.
NoPanic == \A t \in Getters : getPc[t] # "panic"

\* A get call has been made for the client ID.
Known(clientID) ==
  \/ clientID \in DOMAIN subscriptionManagers
  \/ \E t \in Getters : getArg[t].clientID = clientID
  \/ \E k \in 1..Len(purgeableClientIDsFIFO) : purgeableClientIDsFIFO[k] = clientID

\* The clients c1.. make their first get calls in this order.
InOrder(clientID) ==
  \A k \in 2..Len(PurgeableClientIDs) :
    clientID = PurgeableClientIDs[k] => Known(PurgeableClientIDs[k - 1])

\* get, lines 471-477: the lookup under the shared lock; a hit returns.
GetRead(t) ==
  \E arg \in GetArgs :
    /\ NoPanic
    /\ getPc[t] = "idle"
    /\ smmLock \in {"free", "PublishChange"}
    /\ InOrder(arg.clientID)
    /\ IF arg.clientID \in DOMAIN subscriptionManagers
       THEN /\ got' = [got EXCEPT ![t] = ManagerOf(arg.clientID)]
            /\ getPc' = [getPc EXCEPT ![t] = "returned"]
            /\ UNCHANGED getArg
       ELSE /\ created + Cardinality({u \in Getters : getArg[u] # NoGet}) < MaxManagers
            /\ getPc' = [getPc EXCEPT ![t] = "missed"]
            /\ getArg' = [getArg EXCEPT ![t] = arg]
            /\ got' = [got EXCEPT ![t] = 0]
    /\ UNCHANGED <<singleVars, dbVars, subscriptionManagers, purgeableClientIDsFIFO,
                   smmLock, created, lastShutdown, heldManagerLock, todo>>

\* get, line 479: smm.lock.Lock().
GetLock(t) ==
  /\ NoPanic
  /\ getPc[t] = "missed"
  /\ smmLock = "free"
  /\ smmLock' = "get"
  /\ getPc' = [getPc EXCEPT ![t] = "locked"]
  /\ UNCHANGED <<singleVars, dbVars, subscriptionManagers, purgeableClientIDsFIFO,
                 created, lastShutdown, heldManagerLock, getArg, got, todo>>

\* GetCreate returning the manager already registered, when there is one.
GetCreate_KeepsRegistered(t, fifo, registry) ==
  LET arg == getArg[t]
      hit == arg.clientID \in DOMAIN registry
  IN /\ purgeableClientIDsFIFO' =
          IF arg.purgeable /\ ~hit THEN Append(fifo, arg.clientID) ELSE fifo
     /\ created' = IF hit THEN created ELSE created + 1
     /\ subscriptionManagers' =
          IF hit THEN registry
          ELSE MapSet(registry, arg.clientID,
                      [sm |-> created + 1, m |-> newSubscriptionManager,
                       purgeable |-> arg.purgeable])
     /\ got' = [got EXCEPT ![t] = IF hit THEN registry[arg.clientID].sm ELSE created + 1]
     /\ getPc' = [getPc EXCEPT ![t] = "returned"]
     /\ getArg' = [getArg EXCEPT ![t] = NoGet]
     /\ smmLock' = "free"
     /\ heldManagerLock' = 0

\* GetCreate appending to the FIFO as it was before the eviction.
GetCreate_KeepsHead(t, fifo, registry) ==
  LET arg == getArg[t]
  IN /\ purgeableClientIDsFIFO' =
          IF arg.purgeable THEN Append(purgeableClientIDsFIFO, arg.clientID) ELSE fifo
     /\ created' = created + 1
     /\ subscriptionManagers' =
          MapSet(registry, arg.clientID,
                 [sm |-> created + 1, m |-> newSubscriptionManager,
                  purgeable |-> arg.purgeable])
     /\ got' = [got EXCEPT ![t] = created + 1]
     /\ getPc' = [getPc EXCEPT ![t] = "returned"]
     /\ getArg' = [getArg EXCEPT ![t] = NoGet]
     /\ smmLock' = "free"
     /\ heldManagerLock' = 0

\* get, lines 489-495 and the deferred Unlock: the client ID joins the FIFO
\* when purgeable, the new manager is stored and returned.
GetCreate(t, fifo, registry) ==
  LET arg == getArg[t]
  IN /\ purgeableClientIDsFIFO' = IF arg.purgeable THEN Append(fifo, arg.clientID) ELSE fifo
     /\ created' = created + 1
     /\ subscriptionManagers' =
          MapSet(registry, arg.clientID,
                 [sm |-> created + 1, m |-> newSubscriptionManager,
                  purgeable |-> arg.purgeable])
     /\ got' = [got EXCEPT ![t] = created + 1]
     /\ getPc' = [getPc EXCEPT ![t] = "returned"]
     /\ getArg' = [getArg EXCEPT ![t] = NoGet]
     /\ smmLock' = "free"
     /\ heldManagerLock' = 0

\* get, lines 482-495, up to the first sm.lock.Lock() of the evicted
\* manager's Shutdown when it has subscriptions to remove, else to the end.
\* A client ID of the FIFO that has no manager makes Shutdown dereference nil.
GetLocked(t) ==
  /\ NoPanic
  /\ getPc[t] = "locked"
  /\ IF getArg[t].purgeable
          /\ Len(purgeableClientIDsFIFO) = maxPurgeableSubscriptionManagerClient
     THEN LET toPurge == purgeableClientIDsFIFO[1]
          IN IF toPurge \notin DOMAIN subscriptionManagers
             THEN /\ getPc' = [getPc EXCEPT ![t] = "panic"]
                  /\ UNCHANGED <<subscriptionManagers, purgeableClientIDsFIFO, smmLock,
                                 created, lastShutdown, heldManagerLock, getArg, got>>
             ELSE IF ShutdownLocks(subscriptionManagers[toPurge].m)
             THEN /\ heldManagerLock' = ManagerOf(toPurge)
                  /\ getPc' = [getPc EXCEPT ![t] = "evicting"]
                  /\ UNCHANGED <<subscriptionManagers, purgeableClientIDsFIFO, smmLock,
                                 created, lastShutdown, getArg, got>>
             ELSE /\ lastShutdown' = ShutdownOf(toPurge)
                  /\ GetCreate(t, Tail(purgeableClientIDsFIFO),
                               MapDel(subscriptionManagers, toPurge))
     ELSE /\ GetCreate(t, purgeableClientIDsFIFO, subscriptionManagers)
          /\ UNCHANGED lastShutdown
  /\ UNCHANGED <<singleVars, dbVars, todo>>

\* get, lines 485-495: the rest of the evicted manager's Shutdown, its
\* removal from the registry, and the new manager.
GetEvicted(t) ==
  /\ NoPanic
  /\ getPc[t] = "evicting"
  /\ lastShutdown' = ShutdownOf(purgeableClientIDsFIFO[1])
  /\ GetCreate(t, Tail(purgeableClientIDsFIFO),
               MapDel(subscriptionManagers, purgeableClientIDsFIFO[1]))
  /\ UNCHANGED <<singleVars, dbVars, todo>>

\* The caller of get has taken the manager it returned.
GetReturn(t) ==
  /\ NoPanic
  /\ getPc[t] = "returned"
  /\ getPc' = [getPc EXCEPT ![t] = "idle"]
  /\ got' = [got EXCEPT ![t] = 0]
  /\ UNCHANGED <<singleVars, dbVars, subscriptionManagers, purgeableClientIDsFIFO,
                 smmLock, created, lastShutdown, heldManagerLock, getArg, todo>>

\* Registry Shutdown, line 460: smm.lock.Lock().
RegistryShutdownLock ==
  /\ NoPanic
  /\ smmLock = "free"
  /\ smmLock' = "Shutdown"
  /\ todo' = DOMAIN subscriptionManagers
  /\ UNCHANGED <<singleVars, dbVars, subscriptionManagers, purgeableClientIDsFIFO,
                 created, lastShutdown, heldManagerLock, getPc, getArg, got>>

\* Registry Shutdown, line 464: sm.Shutdown(ctx) of the next manager, up to
\* its first sm.lock.Lock() when it has subscriptions to remove.
RegistryShutdownManager ==
  \E clientID \in {c \in todo : c = NextOf(todo)} :
    /\ NoPanic
    /\ smmLock = "Shutdown"
    /\ heldManagerLock = 0
    /\ IF ShutdownLocks(subscriptionManagers[clientID].m)
       THEN /\ heldManagerLock' = ManagerOf(clientID)
            /\ UNCHANGED <<subscriptionManagers, lastShutdown, todo>>
       ELSE /\ subscriptionManagers' = ShutdownIn(subscriptionManagers, clientID)
            /\ lastShutdown' = ShutdownOf(clientID)
            /\ todo' = todo \ {clientID}
            /\ UNCHANGED heldManagerLock
    /\ UNCHANGED <<singleVars, dbVars, purgeableClientIDsFIFO, smmLock, created,
                   getPc, getArg, got>>

\* The rest of that manager's Shutdown.
RegistryShutdownManagerEnds ==
  /\ NoPanic
  /\ smmLock = "Shutdown"
  /\ heldManagerLock # 0
  /\ subscriptionManagers' = ShutdownIn(subscriptionManagers, ClientOf(heldManagerLock))
  /\ lastShutdown' = ShutdownOf(ClientOf(heldManagerLock))
  /\ todo' = todo \ {ClientOf(heldManagerLock)}
  /\ heldManagerLock' = 0
  /\ UNCHANGED <<singleVars, dbVars, purgeableClientIDsFIFO, smmLock, created,
                 getPc, getArg, got>>

\* Registry Shutdown, lines 466-467 and the deferred Unlock.
RegistryShutdownEnds ==
  /\ NoPanic
  /\ smmLock = "Shutdown"
  /\ heldManagerLock = 0
  /\ todo = {}
  /\ subscriptionManagers' = EmptyMap
  /\ purgeableClientIDsFIFO' = <<>>
  /\ smmLock' = "free"
  /\ UNCHANGED <<singleVars, dbVars, created, lastShutdown, heldManagerLock, getPc, getArg,
                 got, todo>>

\* Registry PublishChange, line 500: smm.lock.RLock().
RegistryPublishRLock ==
  /\ NoPanic
  /\ smmLock = "free"
  /\ smmLock' = "PublishChange"
  /\ todo' = DOMAIN subscriptionManagers
  /\ UNCHANGED <<singleVars, dbVars, subscriptionManagers, purgeableClientIDsFIFO,
                 created, lastShutdown, heldManagerLock, getPc, getArg, got>>

\* Registry PublishChange, line 503: sm.PublishChange(topic) of the next
\* manager takes sm.lock.RLock().
RegistryPublishManager ==
  \E clientID \in {c \in todo : c = NextOf(todo)} :
    /\ NoPanic
    /\ smmLock = "PublishChange"
    /\ heldManagerLock = 0
    /\ heldManagerLock' = ManagerOf(clientID)
    /\ UNCHANGED <<singleVars, dbVars, subscriptionManagers, purgeableClientIDsFIFO,
                   smmLock, created, lastShutdown, getPc, getArg, got, todo>>

\* That manager's PublishChange returns (its notify calls are PublishChange
\* of the single manager above).
RegistryPublishManagerEnds ==
  /\ NoPanic
  /\ smmLock = "PublishChange"
  /\ heldManagerLock # 0
  /\ todo' = todo \ {ClientOf(heldManagerLock)}
  /\ heldManagerLock' = 0
  /\ UNCHANGED <<singleVars, dbVars, subscriptionManagers, purgeableClientIDsFIFO,
                 smmLock, created, lastShutdown, getPc, getArg, got>>

\* Registry PublishChange, the deferred RUnlock.
RegistryPublishEnds ==
  /\ NoPanic
  /\ smmLock = "PublishChange"
  /\ heldManagerLock = 0
  /\ todo = {}
  /\ smmLock' = "free"
  /\ UNCHANGED <<singleVars, dbVars, subscriptionManagers, purgeableClientIDsFIFO,
                 created, lastShutdown, heldManagerLock, getPc, getArg, got, todo>>

\* The clients that subscribe on the managers they got.
SubscribingClients == {"c1", "n1"}

\* The model lets the clients of MaxSubscribed registered managers subscribe.
CanClientSubscribe(clientID) ==
  /\ NoPanic
  /\ clientID \in SubscribingClients
  /\ heldManagerLock # ManagerOf(clientID)
  /\ \/ subscriptionManagers[clientID].m.subscriptionIDs # {}
     \/ Cardinality({c \in DOMAIN subscriptionManagers :
                       subscriptionManagers[c].m.subscriptionIDs # {}}) < MaxSubscribed

\* The client of a registered manager subscribes to a path on it.
ClientSubscribePath ==
  \E clientID \in DOMAIN subscriptionManagers :
    /\ CanClientSubscribe(clientID)
    /\ "sid1" \notin subscriptionManagers[clientID].m.subscriptionIDs
    /\ subscriptionManagers' =
         [subscriptionManagers EXCEPT ![clientID].m =
            Held(subscribePath(@, "sid1", [err |-> "nil", fb |-> "fb1",
                                          rawInTlfPath |-> Root], FALSE).m)]
    /\ UNCHANGED <<singleVars, dbVars, purgeableClientIDsFIFO, smmLock, created,
                   lastShutdown, heldManagerLock, getPc, getArg, got, todo>>

\* The client of a registered manager subscribes to a topic on it.
ClientSubscribeNonPath ==
  \E clientID \in DOMAIN subscriptionManagers :
    /\ CanClientSubscribe(clientID)
    /\ "sid2" \notin subscriptionManagers[clientID].m.subscriptionIDs
    /\ subscriptionManagers' =
         [subscriptionManagers EXCEPT ![clientID].m =
            Held(subscribeNonPath(@, "sid2", OnlineStatusTopic, FALSE).m)]
    /\ UNCHANGED <<singleVars, dbVars, purgeableClientIDsFIFO, smmLock, created,
                   lastShutdown, heldManagerLock, getPc, getArg, got, todo>>

\* ------------------------------------------- fan-out under the shared lock

\* One manager with the subscription sid1 of the path "/" of fb1, whose
\* delivery is the debounce primitive above; threads that fan a change out
\* under sm.lock.RLock(), and a thread that unsubscribes. callerPc of a
\* fan-out thread: "idle", "rlocked", "sending" (in notify) or "notified".

FanOutPath == [err |-> "nil", fb |-> "fb1", rawInTlfPath |-> Root]
FanOutNode == [fb |-> "fb1", path |-> Root, ok |-> TRUE]

\* debounce has been called for sid1's delivery.
Delivered == cancelled \/ 1 \in live

\* The threads inside their RLock section.
Readers == {c \in Callers : callerPc[c] # "idle"}

\* A Lock() call is blocked; sync.RWMutex then lets no new reader in.
WriterWaiting == unsubPc.at \in {"waitPath", "waitNonPath"}

\* subscribePath(sid1, "/"), lines 212-255, from Lock to Unlock: debounce
\* starts the delivery.
FanOutSubscribePath ==
  /\ ~Delivered
  /\ lock = "free"
  /\ SetManager(subscribePath(Manager, "sid1", FanOutPath, dLimit = Every).m)
  /\ UNCHANGED <<last, trace, thVars, dbVars, regVars>>

\* LocalChange, PublishChange: sm.lock.RLock().
FanOutRLock(c) ==
  /\ callerPc[c] = "idle"
  /\ called < MaxNotify
  /\ lock \in {"free", "RLock"}
  /\ ~WriterWaiting
  /\ lock' = "RLock"
  /\ callerPc' = [callerPc EXCEPT ![c] = "rlocked"]
  /\ UNCHANGED <<mgrVars, envVars, last, trace, unsubPc, shPc, pathSids, nonPathSids,
                 regVars, obsVars, dLimit, ch, cancelled, loopPc, nextToken, wakeAt, now,
                 called, sent, dropped, started, running>>

\* The fan-out reaches notifier.notify() of the delivery when the index it
\* ranges over holds it (lines 328-339, 399-405), else it is through.
FanOutNotify(c) ==
  \E notified \in {nodeChangeLocked(Manager, FanOutNode),
                    PublishChange(Manager, OverallSyncStatusTopic)} :
    /\ callerPc[c] = "rlocked"
    /\ IF notified[1] > 0
       THEN /\ callerPc' = [callerPc EXCEPT ![c] = "sending"]
            /\ called' = called + 1
            /\ late' = IF cancelled THEN late \cup {c} ELSE late
       ELSE /\ callerPc' = [callerPc EXCEPT ![c] = "notified"]
            /\ UNCHANGED <<called, late>>
    /\ UNCHANGED <<mgrAll, startedAt, lateItem, dLimit, ch, cancelled, loopPc, nextToken,
                   wakeAt, now, sent, dropped, started, running>>

\* The send of that notify call completes (or, not blocking, gives up).
FanOutSend(c) ==
  /\ callerPc[c] = "sending"
  /\ LET sender == getChSender(dLimit = Inf, ch)
     IN /\ sender.ready
        /\ ch' = IF sender.puts THEN ch + 1 ELSE ch
        /\ sent' = IF sender.puts THEN sent + 1 ELSE sent
        /\ dropped' = IF sender.puts THEN dropped ELSE dropped + 1
        /\ lateItem' = IF sender.puts THEN c \in late ELSE lateItem
  /\ callerPc' = [callerPc EXCEPT ![c] = "notified"]
  /\ late' = late \ {c}
  /\ UNCHANGED <<mgrAll, startedAt, dLimit, cancelled, loopPc, nextToken, wakeAt, now, called,
                 started, running>>

\* The deferred sm.lock.RUnlock().
FanOutRUnlock(c) ==
  /\ callerPc[c] = "notified"
  /\ callerPc' = [callerPc EXCEPT ![c] = "idle"]
  /\ lock' = IF Readers = {c} THEN "free" ELSE "RLock"
  /\ UNCHANGED <<mgrVars, envVars, last, trace, unsubPc, shPc, pathSids, nonPathSids,
                 regVars, obsVars, dLimit, ch, cancelled, loopPc, nextToken, wakeAt, now,
                 called, sent, dropped, started, running>>

\* subscriber.Unsubscribe(sid1): unsubscribePath calls sm.lock.Lock().
FanOutUnsubscribe ==
  /\ unsubPc.at = "idle"
  /\ 1 \in live
  /\ unsubPc' = [sid |-> "sid1", at |-> "waitPath"]
  /\ UNCHANGED <<mgrVars, envVars, last, trace, lock, shPc, pathSids, nonPathSids, dbVars,
                 regVars>>

\* The blocked Lock() returns.
FanOutUnsubscribeLock ==
  /\ WriterWaiting
  /\ lock = "free"
  /\ lock' = "Unsubscribe"
  /\ unsubPc' = [unsubPc EXCEPT !.at = IF @ = "waitPath" THEN "unsubscribePath"
                                        ELSE "unsubscribeNonPath"]
  /\ UNCHANGED <<mgrVars, envVars, last, trace, shPc, pathSids, nonPathSids, dbVars, regVars>>

\* unsubscribePath under the lock: notifier.shutdown() cancels the
\* delivery's context; then unsubscribeNonPath calls Lock().
FanOutUnsubscribePath ==
  /\ lock = "Unsubscribe"
  /\ unsubPc.at = "unsubscribePath"
  /\ LET m == unsubscribePath(Manager, unsubPc.sid)
     IN /\ SetManager(m)
        /\ cancelled' = (cancelled \/ 1 \in m.shut)
  /\ lock' = "free"
  /\ unsubPc' = [unsubPc EXCEPT !.at = "waitNonPath"]
  /\ UNCHANGED <<last, trace, shPc, pathSids, nonPathSids, regVars, obsVars, dLimit, ch,
                 loopPc, nextToken, wakeAt, now, callerPc, called, sent, dropped, started,
                 running>>

\* unsubscribeNonPath under the lock.
FanOutUnsubscribeNonPath ==
  /\ lock = "Unsubscribe"
  /\ unsubPc.at = "unsubscribeNonPath"
  /\ LET m == unsubscribeNonPath(Manager, unsubPc.sid)
     IN /\ SetManager(m)
        /\ cancelled' = (cancelled \/ 1 \in m.shut)
  /\ lock' = "free"
  /\ unsubPc' = NoUnsubscribe
  /\ UNCHANGED <<last, trace, shPc, pathSids, nonPathSids, regVars, obsVars, dLimit, ch,
                 loopPc, nextToken, wakeAt, now, callerPc, called, sent, dropped, started,
                 running>>

\* The delivery's loop once debounce has been called, and the clock, which
\* only a limiter of finite rate reads. The callbacks the loop starts are not
\* followed further: neither the loop nor a fan-out waits for them.
FanOutLoop == Delivered /\ Loop
FanOutTick == Delivered /\ dLimit = Every /\ Tick

\* --------------------------------------------------------- specifications

Init == ManagerInit /\ DebounceStart(Inf)

Next ==
  \/ SubscribePath
  \/ SubscribeNonPath
  \/ UnsubscribeSID
  \/ LocalChange
  \/ BatchChanges
  \/ ManagerPublishChange
  \/ NotifyOnlineStatus
  \/ Return

\* One manager, its calls made one after the other.
Spec == Init /\ [][Next]_vars

TraceNext == TracedSubscribePath \/ TracedUnsubscribe

\* One manager, the run of its effective path calls recorded.
TraceSpec == Init /\ [][TraceNext]_vars

DebounceInit == ManagerInit /\ \E limit \in {Inf, Every} : DebounceStart(limit)

DebounceNext ==
  \/ \E c \in Callers : NotifyCall(c)
  \/ \E c \in Callers : NotifySend(c)
  \/ LoopWait
  \/ LoopWake
  \/ LoopWaitCancelled
  \/ LoopReceive
  \/ LoopDone
  \/ DoReturns
  \/ DebounceShutdown
  \/ Tick

ConcurrentNext ==
  \/ SubscribeLock
  \/ LockedSubscribePath
  \/ LockedSubscribeNonPath
  \/ UnsubscribePathLock
  \/ LockedUnsubscribePath
  \/ UnsubscribeNonPathLock
  \/ LockedUnsubscribeNonPath
  \/ ShutdownReadPathSids
  \/ ShutdownReadNonPathSids
  \/ ShutdownReadFatal
  \/ ShutdownLock
  \/ ShutdownUnsubscribePath
  \/ ShutdownUnsubscribeNonPath
  \/ ShutdownLoopEnds

\* One manager called by a subscribing thread, an unsubscribing thread and
\* one Shutdown, each section under the lock taking effect at its Unlock.
ConcurrentSpec == Init /\ [][ConcurrentNext]_vars

RegistryNext ==
  \/ \E t \in Getters : GetRead(t)
  \/ \E t \in Getters : GetLock(t)
  \/ \E t \in Getters : GetLocked(t)
  \/ \E t \in Getters : GetEvicted(t)
  \/ \E t \in Getters : GetReturn(t)
  \/ RegistryShutdownLock
  \/ RegistryShutdownManager
  \/ RegistryShutdownManagerEnds
  \/ RegistryShutdownEnds
  \/ ClientSubscribePath

\* The registry called by NumGetters threads of get and one of Shutdown,
\* and the clients of its managers.
RegistrySpec == Init /\ [][RegistryNext]_vars

RegistryLockNext ==
  \/ GetRead(1)
  \/ GetLock(1)
  \/ GetLocked(1)
  \/ GetEvicted(1)
  \/ GetReturn(1)
  \/ RegistryShutdownLock
  \/ RegistryShutdownManager
  \/ RegistryShutdownManagerEnds
  \/ RegistryShutdownEnds
  \/ RegistryPublishRLock
  \/ RegistryPublishManager
  \/ RegistryPublishManagerEnds
  \/ RegistryPublishEnds
  \/ ClientSubscribePath

\* The registry's three operations, one get at a time, one Shutdown or
\* PublishChange at a time, and the clients of its managers.
RegistryLockSpec == Init /\ [][RegistryLockNext]_vars

SequentialGetNext ==
  \/ GetRead(1)
  \/ GetLock(1)
  \/ GetLocked(1)
  \/ GetEvicted(1)
  \/ GetReturn(1)
  \/ ClientSubscribePath
  \/ ClientSubscribeNonPath

\* The registry called by one thread, its get calls one after the other.
SequentialGetSpec == Init /\ [][SequentialGetNext]_vars

\* One delivery: its loop, its callers, its shutdown and the clock.
DebounceSpec == DebounceInit /\ [][DebounceNext]_vars

\* The same with the scheduler running the loop and every caller whose send
\* can complete, and the clock advancing.
FairDebounceSpec ==
  /\ DebounceSpec
  /\ WF_vars(Loop)
  /\ \A c \in Callers : WF_vars(NotifySend(c))
  /\ WF_vars(Tick)

FanOutNext ==
  \/ FanOutSubscribePath
  \/ \E c \in Callers : FanOutRLock(c)
  \/ \E c \in Callers : FanOutNotify(c)
  \/ \E c \in Callers : FanOutSend(c)
  \/ \E c \in Callers : FanOutRUnlock(c)
  \/ FanOutUnsubscribe
  \/ FanOutUnsubscribeLock
  \/ FanOutUnsubscribePath
  \/ FanOutUnsubscribeNonPath
  \/ FanOutLoop
  \/ FanOutTick

\* The fan-out threads, the unsubscribing thread and the delivery's loop.
FanOutSpec == DebounceInit /\ [][FanOutNext]_vars

\* The same with the scheduler running every thread that can take a step:
\* the loop, the fan-out threads, the unsubscribing thread once its Lock()
\* can return, and the clock.
FairFanOutSpec ==
  /\ FanOutSpec
  /\ WF_vars(FanOutLoop)
  /\ WF_vars(FanOutTick)
  /\ \A c \in Callers : WF_vars(FanOutNotify(c) \/ FanOutSend(c) \/ FanOutRUnlock(c))
  /\ WF_vars(FanOutUnsubscribeLock \/ FanOutUnsubscribePath \/ FanOutUnsubscribeNonPath)

\* ------------------------------------------------------------------ claims

\* The active path subscriptions whose ref is in container branch fb.
PathSIDsIn(fb) ==
  {sid \in DOMAIN pathSubscriptionIDToRef : pathSubscriptionIDToRef[sid].folderBranch = fb}

\* The components of a clean path, and the path of its directory.
Components(p) == CleanWalk(SplitAt(p, <<>>), <<>>)
DirOf(p) == PathOf(SubSeq(Components(p), 1, Len(Components(p)) - 1))

\* C1: subscriptionCountByFolderBranch[fb] is the number of active path
\* subscriptions whose ref is in fb, for every fb.
C1_CountIsNumberOfSubscriptions ==
  \A fb \in FBs :
    IntGet(subscriptionCountByFolderBranch, fb) = Cardinality(PathSIDsIn(fb))

\* C2: the manager is registered with the Notifier for fb exactly when some
\* active path subscription has a ref in fb.
C2_RegisteredIffSubscribed ==
  \A fb \in FBs : (fb \in registered) <=> (PathSIDsIn(fb) # {})

\* A recorded run that begins with two path subscriptions of different SIDs
\* on different paths of one container branch, then unsubscribes both.
TwoPathsOneContainer ==
  /\ Len(trace) >= 4
  /\ trace[1].op = "subscribePath" /\ trace[2].op = "subscribePath"
  /\ trace[3].op = "Unsubscribe" /\ trace[4].op = "Unsubscribe"
  /\ trace[1].sid # trace[2].sid
  /\ trace[1].ref.folderBranch = trace[2].ref.folderBranch
  /\ trace[1].ref.path # trace[2].ref.path

\* C3: in such a run the only Notifier calls are one RegisterForChanges, made
\* by the first subscribe, and one UnregisterFromChanges, made by the
\* unsubscribe that removes the second of the two subscriptions.
C3_OneRegisterOneUnregister ==
  TwoPathsOneContainer =>
    LET fb == trace[1].ref.folderBranch
    IN /\ trace[1].calls = <<[call |-> "RegisterForChanges", fb |-> fb]>>
       /\ trace[2].calls = <<>>
       /\ trace[3].calls = <<>>
       /\ trace[4].calls = <<[call |-> "UnregisterFromChanges", fb |-> fb]>>

C3_Witness ==
  /\ TwoPathsOneContainer
  /\ trace[3].sid = trace[1].sid
  /\ registered = {}

\* C4 as stated: every subscribe call with an active SID returns the
\* duplicate-subscription error, whatever its path resolves to.
C4_EverySubscribeOfActiveSIDIsDuplicate ==
  [][ (last'.op \in {"subscribePath", "subscribeNonPath"} /\ last'.sid \in subscriptionIDs)
        => last'.err = "duplicate" ]_vars

\* C4, amended: a subscribeNonPath call with an active SID, and a
\* subscribePath call with an active SID whose path resolves to a non-zero
\* FolderBranch, return the duplicate-subscription error; a subscribePath call
\* whose path does not resolve returns the resolver's error, and one whose
\* container is the zero FolderBranch returns nil.
C4_SubscribeOfActiveSID ==
  [][ (last'.op \in {"subscribePath", "subscribeNonPath"} /\ last'.sid \in subscriptionIDs)
        => /\ (last'.op = "subscribeNonPath" \/ last'.res = "ok") => last'.err = "duplicate"
           /\ (last'.op = "subscribePath" /\ last'.res = "error")
                => last'.err \in {"parsePath", "getFolderBranch"}
           /\ (last'.op = "subscribePath" /\ last'.res = "zero") => last'.err = "nil" ]_vars

C4_Witness ==
  /\ last.op = "subscribePath"
  /\ last.err = "duplicate"
  /\ last.sid \in DOMAIN nonPathSubscriptionIDToTopic

\* C5: a subscribe call that returns the duplicate-subscription error leaves
\* the indices, the reverse indices, the active set and the counts as they
\* were, makes no Notifier call, starts no delivery and shuts none down.
C5_DuplicateChangesNothing ==
  [][ last'.err = "duplicate"
        => /\ UNCHANGED <<mgrVars, envVars>>
           /\ last'.calls = <<>>
           /\ last'.created = {}
           /\ last'.shut = {} ]_vars

C5_Witness ==
  /\ last.op = "subscribeNonPath"
  /\ last.err = "duplicate"
  /\ last.sid \in DOMAIN pathSubscriptionIDToRef
  /\ pathSubscriptions[pathSubscriptionIDToRef[last.sid]][last.sid].id \in live

\* C6: Unsubscribe of a SID that is not active changes nothing, calls
\* UnregisterFromChanges for nothing and shuts no delivery down; Unsubscribe
\* twice leaves what Unsubscribe once leaves.
C6_UnsubscribeInactiveIsNoOp ==
  /\ [][ (last'.op = "Unsubscribe" /\ last'.sid \notin subscriptionIDs)
           => /\ UNCHANGED <<mgrVars, envVars>>
              /\ last'.calls = <<>>
              /\ last'.shut = {} ]_vars
  /\ [](\A sid \in SIDs :
          Held(Unsubscribe(Unsubscribe(Manager, sid), sid)) = Held(Unsubscribe(Manager, sid)))

C6_Witness ==
  /\ last.op = "Unsubscribe"
  /\ last.shut = {}
  /\ last.sid \notin subscriptionIDs
  /\ DOMAIN pathSubscriptionIDToRef # {}
  /\ registered # {}
  /\ live # {}

\* The notify calls due for a change of one node: one on every subscription
\* of the node's own ref and one on every subscription of its directory's ref.
DueForNode(node) ==
  BagAdd(NotifyBucket(BucketGet(pathSubscriptions, Ref(node.fb, node.path))),
         NotifyBucket(BucketGet(pathSubscriptions, Ref(node.fb, DirOf(node.path)))))

RECURSIVE DueForNodes(_)
DueForNodes(nodes) ==
  IF nodes = <<>> THEN NoNotify
  ELSE BagAdd(DueForNode(nodes[1]), DueForNodes(Tail(nodes)))

ChangeCall == last.op \in {"LocalChange", "BatchChanges"}

\* C7: a change of a node at a clean path of two or more components calls
\* notify on exactly the subscriptions of (fb, path) and (fb, parent of path).
C7_ChangeNotifiesPathAndParent ==
  (/\ ChangeCall
   /\ \A i \in 1..Len(last.nodes) :
        last.nodes[i].ok /\ Len(Components(last.nodes[i].path)) >= 2)
    => last.notified = DueForNodes(last.nodes)

C7_Witness ==
  /\ last.op = "LocalChange"
  /\ last.nodes[1].path = <<"/", "a", "/", "b">>
  /\ \E s1 \in SIDs, s2 \in SIDs :
       /\ s1 \in DOMAIN pathSubscriptionIDToRef
       /\ s2 \in DOMAIN pathSubscriptionIDToRef
       /\ pathSubscriptionIDToRef[s1] = Ref(last.nodes[1].fb, <<"/", "a">>)
       /\ pathSubscriptionIDToRef[s2] = Ref(last.nodes[1].fb, Root)
       /\ last.notified[pathSubscriptions[pathSubscriptionIDToRef[s1]][s1].id] = 1
       /\ last.notified[pathSubscriptions[pathSubscriptionIDToRef[s2]][s2].id] = 0

\* C8: a change of any direct child of a directory, the root included, calls
\* notify on every subscription keyed by that directory.
C8_DirectoryNotifiedOfChildChange ==
  (/\ last.op = "LocalChange"
   /\ last.nodes[1].ok
   /\ Len(Components(last.nodes[1].path)) >= 1)
    => LET bucket == BucketGet(pathSubscriptions,
                               Ref(last.nodes[1].fb, DirOf(last.nodes[1].path)))
       IN \A sid \in DOMAIN bucket : last.notified[bucket[sid].id] >= 1

\* The notify calls due for PublishChange(topic), from the reverse indices.
DueForTopic(topic) ==
  [d \in DeliveryIDs |->
     Cardinality({sid \in DOMAIN nonPathSubscriptionIDToTopic :
                    /\ nonPathSubscriptionIDToTopic[sid] = topic
                    /\ nonPathSubscriptions[topic][sid].id = d})
     + IF topic = OverallSyncStatusTopic
       THEN Cardinality({sid \in DOMAIN pathSubscriptionIDToRef :
                           pathSubscriptions[pathSubscriptionIDToRef[sid]][sid].id = d})
       ELSE 0]

\* C9: PublishChange(topic) calls notify once on every non-path subscription
\* of topic, once on every path subscription when topic is
\* OVERALL_SYNC_STATUS, and on nothing else.
C9_PublishNotifiesTopicAndSyncPaths ==
  last.op = "PublishChange" => last.notified = DueForTopic(last.topic)

C9_Witness ==
  /\ last.op = "PublishChange"
  /\ last.topic = OnlineStatusTopic
  /\ DOMAIN pathSubscriptionIDToRef # {}
  /\ \E sid \in DOMAIN nonPathSubscriptionIDToTopic :
       /\ nonPathSubscriptionIDToTopic[sid] = OnlineStatusTopic
       /\ last.notified[nonPathSubscriptions[OnlineStatusTopic][sid].id] = 1

\* C10: with limit rate.Inf and no shutdown, no notify call is dropped and no
\* item is delivered twice; a notify call returns only by putting its item
\* into the empty channel; and with the loop scheduled every notify call is
\* followed by a callback of its own.
C10_UnlimitedDeliversEveryNotify ==
  /\ []((dLimit = Inf /\ ~cancelled) => (dropped = 0 /\ started + ch = sent /\ sent <= called))
  /\ [][ \A c \in Callers :
           (dLimit = Inf /\ callerPc[c] = "sending" /\ callerPc'[c] = "idle")
             => (ch = 0 /\ ch' = 1) ]_vars
  /\ \A n \in 1..MaxNotify :
       (dLimit = Inf /\ called >= n) ~> (cancelled \/ started >= n)

C10_Witness ==
  /\ dLimit = Inf
  /\ ~cancelled
  /\ called = MaxNotify
  /\ started = MaxNotify

\* C11: with a finite dedup interval no two callback invocations start less
\* than the interval apart.
C11_OneStartPerInterval ==
  [][ (dLimit = Every /\ started' = started + 1 /\ startedAt >= 0)
        => startedAt' - startedAt >= Interval ]_vars

\* C12: after shutdown a later notify call is never left unable to complete
\* its send, an item put by such a call starts no callback, and the
\* background loop terminates.
C12_NotifyAfterShutdownIsNoOp ==
  /\ [](\A c \in late :
          callerPc[c] = "sending" => getChSender(dLimit = Inf, ch).ready)
  /\ [][ (ch > 0 /\ lateItem) => started' = started ]_vars
  /\ (cancelled ~> loopPc = "done")

\* A user path whose container does not exist.
ZeroPath == [err |-> "nil", fb |-> ZeroFB, rawInTlfPath |-> Root]

\* C15: subscribePath of a path that resolves to the zero FolderBranch returns
\* nil and changes nothing: no index, count or active SID, no Notifier call,
\* no delivery; the same SID subscribes successfully right after it.
C15_ZeroFolderBranchIsNoOp ==
  /\ [][ (last'.op = "subscribePath" /\ last'.res = "zero")
           => /\ last'.err = "nil"
              /\ UNCHANGED <<mgrVars, envVars>>
              /\ last'.calls = <<>>
              /\ last'.created = {}
              /\ last'.shut = {} ]_vars
  /\ [](CanSubscribe =>
          \A sid \in SIDs \ subscriptionIDs, userPath \in UserPaths :
            Resolution(userPath) = "ok" =>
              LET r == subscribePath(subscribePath(Manager, sid, ZeroPath, FALSE).m,
                                     sid, userPath, FALSE)
              IN r.err = "nil" /\ sid \in r.m.subscriptionIDs)

C15_Witness ==
  /\ last.op = "subscribePath"
  /\ last.res = "zero"
  /\ last.err = "nil"
  /\ last.sid \notin subscriptionIDs
  /\ subscriptionIDs # {}

\* The client IDs whose registered manager was created by a purgeable get,
\* and the one of them whose manager was created first.
PurgeableRegistered ==
  {c \in DOMAIN subscriptionManagers : subscriptionManagers[c].purgeable}

OldestPurgeable ==
  CHOOSE c \in PurgeableRegistered :
    \A d \in PurgeableRegistered : ManagerOf(c) <= ManagerOf(d)

\* A manager that has no subscription and no delivery.
NoSubscriptions(m) ==
  /\ m.pathSubscriptions = EmptyMap
  /\ m.pathSubscriptionIDToRef = EmptyMap
  /\ DOMAIN m.nonPathSubscriptionIDToTopic = {}
  /\ \A topic \in DOMAIN m.nonPathSubscriptions : DOMAIN m.nonPathSubscriptions[topic] = {}
  /\ m.subscriptionIDs = {}
  /\ m.live = {}

\* C13: with get calls made one after the other, a purgeable get that
\* creates a manager while three purgeable managers are registered shuts the
\* first-created of them down, leaving it no subscription and no delivery,
\* and removes it; every other manager stays as it was; every get that
\* misses, one for an evicted client ID included, returns a new manager with
\* no subscriptions.
C13_OldestPurgeableIsEvicted ==
  [][ (getPc[1] \in {"locked", "evicting"} /\ getPc'[1] = "returned")
        => LET clientID == getArg[1].clientID
           IN /\ got'[1] = created + 1
              /\ subscriptionManagers'[clientID].sm = created + 1
              /\ subscriptionManagers'[clientID].m = newSubscriptionManager
              /\ (getArg[1].purgeable /\ Cardinality(PurgeableRegistered) = 3)
                   => /\ OldestPurgeable \notin DOMAIN subscriptionManagers'
                      /\ lastShutdown'.sm = ManagerOf(OldestPurgeable)
                      /\ NoSubscriptions(lastShutdown'.m)
                      /\ \A c \in DOMAIN subscriptionManagers \ {OldestPurgeable} :
                           /\ c \in DOMAIN subscriptionManagers'
                           /\ subscriptionManagers'[c] = subscriptionManagers[c] ]_vars

C13_Witness ==
  /\ getPc[1] = "returned"
  /\ Len(purgeableClientIDsFIFO) = 3
  /\ lastShutdown.sm # 0
  /\ Cardinality(lastShutdown.m.shut) = 2
  /\ "n1" \in DOMAIN subscriptionManagers
  /\ ~subscriptionManagers["n1"].purgeable
  /\ got[1] = ManagerOf(purgeableClientIDsFIFO[3])

\* C14: as long as the registry's Shutdown is not running, a registered
\* manager that a get with purgeable = false created stays the registered
\* manager of its client ID and is not shut down, whatever get calls run.
C14_NonPurgeableManagerStays ==
  [][ \A c \in DOMAIN subscriptionManagers :
        (~subscriptionManagers[c].purgeable /\ smmLock # "Shutdown")
          => /\ c \in DOMAIN subscriptionManagers'
             /\ subscriptionManagers'[c].sm = ManagerOf(c)
             /\ lastShutdown'.sm = ManagerOf(c) => lastShutdown.sm = ManagerOf(c) ]_vars

\* C17: while a registry operation holds the registry's lock, no lock of a
\* manager is held on its behalf.
C17_NoManagerLockUnderRegistryLock ==
  smmLock # "free" => heldManagerLock = 0

\* Shutdown has read an index and has not made its last removal.
ShutdownInProgress ==
  \/ shPc = "readNonPathSids"
  \/ shPc \in {"unsubscribePath", "unsubscribeNonPath"} /\ pathSids \cup nonPathSids # {}

\* C16: from its reading of the indices to its last removal Shutdown holds
\* the lock, no subscribe takes effect in between, and its last removal
\* leaves no subscription and no delivery.
C16_ShutdownIsAtomic ==
  /\ [](ShutdownInProgress => lock = "Shutdown")
  /\ [][ ShutdownInProgress => subscriptionIDs' \subseteq subscriptionIDs ]_vars
  /\ [][ (ShutdownInProgress /\ ~ShutdownInProgress')
           => (subscriptionIDs' = {} /\ live' = {}) ]_vars

\* C19: with the lock free, a SID is active exactly when it is in one of the
\* two reverse indices, and it is never in both.
C19_ActiveIffInOneIndex ==
  lock = "free" =>
    \A sid \in SIDs :
      /\ sid \in subscriptionIDs <=>
           (sid \in DOMAIN pathSubscriptionIDToRef
              \/ sid \in DOMAIN nonPathSubscriptionIDToTopic)
      /\ ~(sid \in DOMAIN pathSubscriptionIDToRef
             /\ sid \in DOMAIN nonPathSubscriptionIDToTopic)

C19_Witness ==
  /\ lock = "free"
  /\ shPc = "unsubscribeNonPath"
  /\ unsubPc.at = "between"
  /\ DOMAIN pathSubscriptionIDToRef # {}
  /\ DOMAIN nonPathSubscriptionIDToTopic # {}

\* C20: with the lock free, sid is in the bucket of ref exactly when
\* pathSubscriptionIDToRef[sid] is ref, and no bucket is empty.
C20_BucketsMatchReverseIndex ==
  lock = "free" =>
    /\ \A ref \in DOMAIN pathSubscriptions :
         /\ DOMAIN pathSubscriptions[ref] # {}
         /\ \A sid \in DOMAIN pathSubscriptions[ref] :
              /\ sid \in DOMAIN pathSubscriptionIDToRef
              /\ pathSubscriptionIDToRef[sid] = ref
    /\ \A sid \in DOMAIN pathSubscriptionIDToRef :
         /\ pathSubscriptionIDToRef[sid] \in DOMAIN pathSubscriptions
         /\ sid \in DOMAIN pathSubscriptions[pathSubscriptionIDToRef[sid]]

C20_Witness ==
  /\ lock = "free"
  /\ Cardinality(DOMAIN pathSubscriptionIDToRef) = 1
  /\ \E ref \in DOMAIN pathSubscriptions :
       /\ Cardinality(DOMAIN pathSubscriptions[ref]) = 1
       /\ IntGet(subscriptionCountByFolderBranch, ref.folderBranch) = 2
  /\ unsubPc.at = "between"

\* C18: while the delivery is not shut down, in either mode, a notify call in
\* progress is followed by a callback that starts after the call began,
\* whether the call puts its item or returns without putting one.
C18_NotifyIsFollowedByCallback ==
  \A k \in 0..(MaxNotify - 1) :
    ((\E c \in Callers : callerPc[c] = "sending") /\ started = k)
      ~> (cancelled \/ started > k)

C18_Witness ==
  /\ dLimit = Every
  /\ ~cancelled
  /\ dropped >= 1
  /\ ch = 0
  /\ started = sent
  /\ \A c \in Callers : callerPc[c] = "idle"

\* C21: whatever the interleaving of get and Shutdown calls, the purgeable
\* FIFO holds at most 3 client IDs and the registry holds at most 3 managers
\* that a purgeable get created.
C21_AtMostThreePurgeable ==
  /\ Len(purgeableClientIDsFIFO) <= 3
  /\ Cardinality(PurgeableRegistered) <= 3

C21_Witness ==
  /\ Len(purgeableClientIDsFIFO) = 3
  /\ Cardinality(PurgeableRegistered) = 3
  /\ lastShutdown.sm # 0
  /\ \E t \in Getters : getPc[t] = "returned" /\ got[t] = created
  /\ \E t \in Getters : getPc[t] = "missed" /\ getArg[t].purgeable

\* The numbers of the registered managers.
Registered == {ManagerOf(c) : c \in DOMAIN subscriptionManagers}

\* The get of thread t, holding the exclusive lock, is about to store its
\* manager under a client ID that has one which this get does not evict.
Overwrites(t) ==
  /\ getPc[t] \in {"locked", "evicting"}
  /\ getArg[t].clientID \in DOMAIN subscriptionManagers
  /\ ~(/\ getArg[t].purgeable
        /\ Len(purgeableClientIDsFIFO) = 3
        /\ purgeableClientIDsFIFO[1] = getArg[t].clientID)

\* C22: a get that missed before another get registered a manager for the
\* same client ID stores a new manager over it: the registry then holds the
\* new one, which the caller gets, a caller holding the first keeps it, and
\* the first is not shut down then; the registry shuts down only managers
\* that are registered and registers only new ones, so it never shuts the
\* overwritten one down later.
C22_SecondGetOverwrites ==
  [][ /\ \A t \in Getters :
           (Overwrites(t) /\ getPc'[t] = "returned")
             => LET c == getArg[t].clientID
                IN /\ subscriptionManagers'[c].sm # ManagerOf(c)
                   /\ got'[t] = subscriptionManagers'[c].sm
                   /\ ManagerOf(c) \notin {subscriptionManagers'[d].sm :
                                             d \in DOMAIN subscriptionManagers'}
                   /\ \A u \in Getters : got[u] = ManagerOf(c) => got'[u] = ManagerOf(c)
                   /\ lastShutdown'.sm # ManagerOf(c)
      /\ lastShutdown' # lastShutdown => lastShutdown'.sm \in Registered
      /\ \A d \in DOMAIN subscriptionManagers' :
           \/ subscriptionManagers'[d].sm \in Registered
           \/ subscriptionManagers'[d].sm = created + 1 ]_vars

C22_Witness ==
  /\ created = 2
  /\ lastShutdown.sm = 0
  /\ smmLock = "free"
  /\ Registered = {2}
  /\ got[1] # 0
  /\ got[2] # 0
  /\ got[1] # got[2]
  /\ \A t \in Getters : getPc[t] = "returned"

\* C23: whatever the interleaving of get and Shutdown calls, every client ID
\* in the purgeable FIFO occurs there once and has a registered manager, and
\* no get has dereferenced a missing manager.
C23_FIFOIsSetOfRegistered ==
  /\ \A i, j \in 1..Len(purgeableClientIDsFIFO) :
       i # j => purgeableClientIDsFIFO[i] # purgeableClientIDsFIFO[j]
  /\ \A i \in 1..Len(purgeableClientIDsFIFO) :
       purgeableClientIDsFIFO[i] \in DOMAIN subscriptionManagers
  /\ NoPanic

\* C25: the loop receives an item whenever it is at its select and the
\* channel holds one, however many callbacks are running; receiving starts
\* one more callback and takes the loop back to limiter.Wait at once, and
\* only the return of a callback ends its run.
C25_LoopDoesNotWaitForCallback ==
  /\ []((loopPc = "select" /\ ch > 0) => ENABLED LoopReceive)
  /\ [][ /\ started' # started
            => (started' = started + 1 /\ running' = running + 1 /\ loopPc' = "wait")
         /\ running' < running => (running' = running - 1 /\ loopPc' = loopPc) ]_vars

C25_Witness ==
  /\ dLimit = Every
  /\ ~cancelled
  /\ running = 2
  /\ loopPc = "wait"

\* The deliveries a fan-out can reach through an index.
DeliveriesOf(index) ==
  UNION {{index[k][sid].id : sid \in DOMAIN index[k]} : k \in DOMAIN index}

\* C24: a delivery in an index is not shut down and no notify call of a
\* fan-out begins on a shut-down delivery; with the loop and the threads
\* scheduled fairly every fan-out that holds the shared lock, a notify call
\* in progress included, releases it, and a blocked Lock() of Unsubscribe
\* returns.
C24_FanOutReturns ==
  /\ [](/\ DeliveriesOf(pathSubscriptions) \cup DeliveriesOf(nonPathSubscriptions) \subseteq live
        /\ 1 \in live => ~cancelled
        /\ late = {})
  /\ \A c \in Callers : (callerPc[c] # "idle") ~> (callerPc[c] = "idle")
  /\ WriterWaiting ~> (lock = "Unsubscribe")

C24_Witness ==
  /\ dLimit = Inf
  /\ ch = 1
  /\ lock = "RLock"
  /\ \A c \in Callers : callerPc[c] = "sending"
  /\ unsubPc.at = "waitPath"
  /\ loopPc = "wait"

====
